---- MODULE Spec2Model ----
(***************************************************************************)
(* Model of the stock crawler's backfill engine:                           *)
(*   - the Fetch Gate of internal/util/http/mod.rs (SEMAPHORE, CLIENT,     *)
(*     request_send),                                                       *)
(*   - the quarterly financial-statement backfill task of                  *)
(*     internal/backfill/financial_statement.rs (execute).                 *)
(*   - the statements of database/table/financial_statement.rs (upsert,    *)
(*     upsert_earnings_per_share),                                          *)
(*   - the start-up and the jobs of internal/scheduler.rs.                 *)
(* The specifications share the variables: SpecGate runs concurrent        *)
(* callers of request_send, Spec runs executions of the backfill task,     *)
(* SpecUpsert runs the two statements against the table, SpecSched runs    *)
(* the start-up and the jobs, SpecTwice runs the task twice in sequence    *)
(* and SpecOverlap runs two executions of the task interleaved.            *)
(***************************************************************************)
EXTENDS Integers, Sequences, FiniteSets, TLC

(* ---------------------------- bounds ----------------------------------- *)
\* number of concurrent callers of request_send
NumCallers == 5
\* largest CPU count num_cpus::get() may report
MaxCpus == 1

\* number of ordinary stocks in the stocks table (stock 0 is a preference share)
NumStocks == 2

\* the largest number of rows in the data of a holiday-schedule response
MaxRows == 2

Callers == 1..NumCallers

(* ------------------------ Fetch Gate state ----------------------------- *)
VARIABLES
    SEMAPHORE,  \* Lazy<Semaphore>: [init, permits, capacity]
    CLIENT,     \* OnceCell<Client>: "empty" | "ready"
    waiters,    \* FIFO queue of callers suspended in SEMAPHORE.acquire()
    cpc,        \* position of each caller inside request_send
    cres,       \* result of each caller's last request_send
    woken       \* callers whose suspended acquire() was completed by a release

gateVars == <<SEMAPHORE, CLIENT, waiters, cpc, cres, woken>>

(* ------------------------ backfill task state -------------------------- *)
VARIABLES
    sentinel,              \* redis entry of cache_key "financial_statement::yahoo"
    financial_statement,   \* rows of table financial_statement
    stock_nav,             \* stocks.net_asset_value_per_share of every stock
    pc,                    \* position of the execution inside execute()
    year,                  \* local `year` of execute
    quarter,               \* local `quarter` of execute
    stocks,                \* work items the `for` loop has not visited yet
    stock,                 \* loop variable `stock`
    fs,                    \* local `fs` (the entity built from the profile)
    success_update_count,  \* local `success_update_count`
    result,                \* what the last execute() returned
    now,                   \* (year, quarter) of Local::now() - Duration::days(125)
    trace                  \* what the current / last execution has done

taskVars == <<sentinel, financial_statement, stock_nav, pc, year, quarter, stocks,
              stock, fs, success_update_count, result, now, trace>>

(* ------------------------ clock and statement log --------------------- *)
VARIABLES
    clock,                 \* the reading of Local::now()
    last                   \* the last statement run against financial_statement

(* ------------------------ scheduler state ------------------------------ *)
VARIABLES
    start_pc,              \* position of start() / run_cron()
    sched,                 \* the JobScheduler: [jobs added, started]
    cron_result,           \* what run_cron() returned
    job                    \* the run of every trigger's job: [task, results]

schedVars == <<start_pc, sched, cron_result, job>>

(* ------------------------ repeated and overlapping executions ---------- *)
VARIABLES
    source,                \* what yahoo::profile::visit returns for every stock
    first,                 \* the stores as the first of two runs left them
    other,                 \* the locals of the execution that is not stepping
    port                   \* whether the Persistence Port writes for every stock succeed

runVars == <<source, first, other, port>>

(* ------------------------ notification and holiday schedule ----------- *)
VARIABLES
    telegram,              \* outcome of the last bot::telegram::send of start() and
                           \* of report_error
    holiday,               \* position and result of holiday_schedule::visit
    schedule               \* the response visit received, the dates it returned
                           \* and the number of its report_error calls

notifyVars == <<telegram, holiday, schedule>>

(* ------------------------ the serial column ---------------------------- *)
VARIABLES
    serial                 \* column serial of table financial_statement, by natural key

\* the variables a statement on the table does not touch
restVars == <<clock, last, schedVars, runVars, notifyVars>>

extVars == <<restVars, serial>>

vars == <<SEMAPHORE, CLIENT, waiters, cpc, cres, woken,
          sentinel, financial_statement, stock_nav, pc, year, quarter, stocks,
          stock, fs, success_update_count, result, now, trace,
          clock, last, start_pc, sched, cron_result, job,
          source, first, other, port, serial, telegram, holiday, schedule>>

\* Lazy::new(|| Semaphore::new(num_cpus::get() * 4)), forced on first use
SemaphoreNew(cpus) == [init |-> TRUE, permits |-> cpus * 4, capacity |-> cpus * 4]

SemaphoreUninit == [init |-> FALSE, permits |-> 0, capacity |-> 0]

InitGateVars ==
    /\ SEMAPHORE = SemaphoreUninit
    /\ CLIENT = "empty"
    /\ waiters = <<>>
    /\ cpc = [c \in Callers |-> "idle"]
    /\ cres = [c \in Callers |-> "none"]
    /\ woken = {}

\* request_send lines 226-235: get_client()? then build the request.
\* get_or_try_init: an initialised CLIENT is returned as is; otherwise the
\* builder either succeeds (CLIENT is set) or fails (the error is returned
\* by `?` before any permit is asked for).
get_client(c, built) ==
    /\ cpc[c] = "idle"
    /\ IF CLIENT = "ready" \/ built
       THEN /\ CLIENT' = "ready"
            /\ cpc' = [cpc EXCEPT ![c] = "built"]
            /\ cres' = [cres EXCEPT ![c] = "none"]
       ELSE /\ CLIENT' = CLIENT
            /\ cpc' = [cpc EXCEPT ![c] = "idle"]
            /\ cres' = [cres EXCEPT ![c] = "client_err"]
    /\ UNCHANGED <<SEMAPHORE, waiters, woken>>
    /\ UNCHANGED <<taskVars, extVars>>

\* a variant of acquire that hands out a permit even when none is left
acquire_NoBlock(c, cpus) ==
    /\ cpc[c] = "built"
    /\ LET sem == IF SEMAPHORE.init THEN SEMAPHORE ELSE SemaphoreNew(cpus)
       IN  /\ SEMAPHORE' = [sem EXCEPT !.permits = IF @ > 0 THEN @ - 1 ELSE 0]
           /\ cpc' = [cpc EXCEPT ![c] = "sending"]
           /\ waiters' = waiters
    /\ UNCHANGED <<CLIENT, cres, woken>>
    /\ UNCHANGED <<taskVars, extVars>>

\* request_send line 237: let _permit = SEMAPHORE.acquire().await;
\* the first use forces the Lazy; a free permit is taken at once, otherwise
\* the caller is queued (tokio's semaphore is FIFO) and stays suspended.
acquire(c, cpus) ==
    /\ cpc[c] = "built"
    /\ LET sem == IF SEMAPHORE.init THEN SEMAPHORE ELSE SemaphoreNew(cpus)
       IN  IF sem.permits > 0 /\ waiters = <<>>
           THEN /\ SEMAPHORE' = [sem EXCEPT !.permits = @ - 1]
                /\ cpc' = [cpc EXCEPT ![c] = "sending"]
                /\ waiters' = waiters
           ELSE /\ SEMAPHORE' = sem
                /\ cpc' = [cpc EXCEPT ![c] = "waiting"]
                /\ waiters' = Append(waiters, c)
    /\ UNCHANGED <<CLIENT, cres, woken>>
    /\ UNCHANGED <<taskVars, extVars>>

\* a variant of the return that keeps the permit when the send failed
send_LeakOnError(c, ok) ==
    /\ cpc[c] = "sending"
    /\ cres' = [cres EXCEPT ![c] = IF ok THEN "ok" ELSE "send_err"]
    /\ IF ~ok
       THEN /\ cpc' = [cpc EXCEPT ![c] = "returned"]
            /\ woken' = woken \ {c}
            /\ UNCHANGED <<SEMAPHORE, waiters>>
       ELSE IF waiters # <<>>
       THEN /\ cpc' = [cpc EXCEPT ![c] = "returned", ![Head(waiters)] = "sending"]
            /\ waiters' = Tail(waiters)
            /\ woken' = (woken \ {c}) \cup {Head(waiters)}
            /\ SEMAPHORE' = SEMAPHORE
       ELSE /\ cpc' = [cpc EXCEPT ![c] = "returned"]
            /\ waiters' = waiters
            /\ woken' = woken \ {c}
            /\ SEMAPHORE' = [SEMAPHORE EXCEPT !.permits = @ + 1]
    /\ UNCHANGED CLIENT
    /\ UNCHANGED <<taskVars, extVars>>

\* a variant of the return whose released permit is not handed to the queue
send_NoWake(c, ok) ==
    /\ cpc[c] = "sending"
    /\ cres' = [cres EXCEPT ![c] = IF ok THEN "ok" ELSE "send_err"]
    /\ cpc' = [cpc EXCEPT ![c] = "returned"]
    /\ waiters' = waiters
    /\ woken' = woken \ {c}
    /\ SEMAPHORE' = [SEMAPHORE EXCEPT !.permits = @ + 1]
    /\ UNCHANGED CLIENT
    /\ UNCHANGED <<taskVars, extVars>>

\* a variant of the return in which the permit of a successful send stays
\* with the response while its body is read
send_KeepPermit(c, ok) ==
    /\ cpc[c] = "sending"
    /\ cres' = [cres EXCEPT ![c] = IF ok THEN "ok" ELSE "send_err"]
    /\ IF ok
       THEN /\ cpc' = [cpc EXCEPT ![c] = "returned"]
            /\ woken' = woken \ {c}
            /\ UNCHANGED <<SEMAPHORE, waiters>>
       ELSE IF waiters # <<>>
       THEN /\ cpc' = [cpc EXCEPT ![c] = "returned", ![Head(waiters)] = "sending"]
            /\ waiters' = Tail(waiters)
            /\ woken' = (woken \ {c}) \cup {Head(waiters)}
            /\ SEMAPHORE' = SEMAPHORE
       ELSE /\ cpc' = [cpc EXCEPT ![c] = "returned"]
            /\ waiters' = waiters
            /\ woken' = woken \ {c}
            /\ SEMAPHORE' = [SEMAPHORE EXCEPT !.permits = @ + 1]
    /\ UNCHANGED CLIENT
    /\ UNCHANGED <<taskVars, extVars>>

\* request_send lines 239-242: rb.send().await.map_err(..) and the return,
\* which drops _permit whether the send succeeded or failed.  The released
\* permit goes to the first queued waiter if there is one.
send(c, ok) ==
    /\ cpc[c] = "sending"
    /\ cres' = [cres EXCEPT ![c] = IF ok THEN "ok" ELSE "send_err"]
    /\ IF waiters # <<>>
       THEN /\ cpc' = [cpc EXCEPT ![c] = "returned", ![Head(waiters)] = "sending"]
            /\ waiters' = Tail(waiters)
            /\ woken' = (woken \ {c}) \cup {Head(waiters)}
            /\ SEMAPHORE' = SEMAPHORE
       ELSE /\ cpc' = [cpc EXCEPT ![c] = "returned"]
            /\ waiters' = waiters
            /\ woken' = woken \ {c}
            /\ SEMAPHORE' = [SEMAPHORE EXCEPT !.permits = @ + 1]
    /\ UNCHANGED CLIENT
    /\ UNCHANGED <<taskVars, extVars>>

\* request_get / request_get_use_json / ... : after request_send(..).await?
\* the caller reads and decodes the body (or propagates the error).
read_body(c) ==
    /\ cpc[c] = "returned"
    /\ cpc' = [cpc EXCEPT ![c] = "idle"]
    /\ UNCHANGED <<SEMAPHORE, CLIENT, waiters, cres, woken>>
    /\ UNCHANGED <<taskVars, extVars>>

(* ------------------------ holiday schedule ----------------------------- *)
\* the caller of request_send that is holiday_schedule::visit
HolidayCaller == 1

\* strings are sequences of characters; the values of a stat that is present
StatStrings == {<<"O", "K">>, <<"o", "k">>, <<"O", "k">>, <<"N", "G">>, <<"o">>}

\* HolidayScheduleResponse.stat: Option<String>
StatValues == {[some |-> FALSE, val |-> <<>>]} \cup [some : {TRUE}, val : StatStrings]

\* the marker of a start-of-trading row (one character of the model's strings)
StartOfTrading == "start_of_trading"

\* the cells of the first column: three strings with the shape of a date
\* (2023-02-29 names no day) and one without
DateCells ==
    {<<"2024", "-", "01", "-", "01">>, <<"2024", "-", "02", "-", "29">>,
     <<"2023", "-", "02", "-", "29">>, <<"x">>}

\* the cells of the third column: the description of the day
TextCells == {<<"x">>, <<"x", StartOfTrading, "x">>}

\* the rows of data: two, three or four columns
Rows ==
    {<<<<"2024", "-", "01", "-", "01">>, <<"x">>>>}
        \cup {<<d, <<"x">>, t>> : d \in DateCells, t \in TextCells}
        \cup {<<<<"2024", "-", "02", "-", "29">>, <<"x">>, <<"x">>, <<"x">>>>}

\* HolidayScheduleResponse.data: Vec<Vec<String>>
DataValues == UNION {[1..n -> Rows] : n \in 0..MaxRows}

\* no body, or a body that is not a HolidayScheduleResponse
NoResponse == [parsed |-> FALSE, stat |-> [some |-> FALSE, val |-> <<>>], data |-> <<>>]

\* what get_use_json::<HolidayScheduleResponse> can yield once the request has
\* returned a response: a body that does not parse, or a HolidayScheduleResponse
HolidayResponses == {NoResponse} \cup [parsed : {TRUE}, stat : StatValues, data : DataValues]

\* visit has received nothing and returned nothing
NoSchedule == [res |-> NoResponse, dates |-> <<>>, reports |-> 0]

\* char::to_uppercase on the characters of a stat
UpperChar(c) == CASE c = "o" -> "O" [] c = "k" -> "K" [] OTHER -> c

\* a variant of the normalisation that leaves the string as it is
to_uppercase_Identity(s) == s

\* visit line 32: stat.to_uppercase()
to_uppercase(s) == [i \in 1..Len(s) |-> UpperChar(s[i])]

\* visit line 43: d[2].contains("開始交易"), the start-of-trading marker
contains(s, c) == \E i \in 1..Len(s) : s[i] = c

YearOf == ("2023" :> 2023) @@ ("2024" :> 2024)

MonthOf == ("01" :> 1) @@ ("02" :> 2)

DayOf == ("01" :> 1) @@ ("29" :> 29)

\* the number of days of month m of year y
DaysIn(y, m) ==
    IF m = 2 THEN (IF y % 4 = 0 /\ (y % 100 # 0 \/ y % 400 = 0) THEN 29 ELSE 28)
    ELSE IF m \in {4, 6, 9, 11} THEN 30 ELSE 31

\* visit line 45: NaiveDate::parse_from_str(s, "%Y-%m-%d")
parse_from_str(s) ==
    IF /\ Len(s) = 5
       /\ s[2] = "-" /\ s[4] = "-"
       /\ s[1] \in DOMAIN YearOf /\ s[3] \in DOMAIN MonthOf /\ s[5] \in DOMAIN DayOf
       /\ DayOf[s[5]] <= DaysIn(YearOf[s[1]], MonthOf[s[3]])
    THEN [ok |-> TRUE, date |-> <<YearOf[s[1]], MonthOf[s[3]], DayOf[s[5]]>>]
    ELSE [ok |-> FALSE, date |-> <<>>]

\* visit lines 40-48: the rows of at least 3 columns whose third column does
\* not contain the marker, in order; the first column of each is pushed when
\* it parses
RECURSIVE CollectDates(_)
CollectDates(data) ==
    IF data = <<>> THEN <<>>
    ELSE LET d == Head(data)
             rest == CollectDates(Tail(data))
         IN  IF Len(d) >= 3 /\ ~contains(d[3], StartOfTrading) /\ parse_from_str(d[1]).ok
             THEN <<parse_from_str(d[1]).date>> \o rest
             ELSE rest

\* what a step of visit leaves alone
HolidayFrame ==
    UNCHANGED <<SEMAPHORE, CLIENT, waiters, cpc, woken, taskVars, clock, last,
                schedVars, runVars, serial>>

\* visit lines 17-25: the call, up to the request of get_use_json
holiday_begin ==
    /\ holiday.pc \in {"idle", "returned"}
    /\ cpc[HolidayCaller] = "idle"
    /\ holiday' = [pc |-> "request", result |-> "none"]
    /\ schedule' = NoSchedule
    /\ telegram' = [telegram EXCEPT !.report = "none"]
    /\ cres' = [cres EXCEPT ![HolidayCaller] = "none"]
    /\ HolidayFrame

\* visit is inside get_use_json and has not called request_send yet
InVisit == holiday.pc = "request" /\ cres[HolidayCaller] = "none"

\* visit lines 25-50: get_use_json(..).await? returns its error; a response
\* without stat or with a stat other than "OK" is reported; otherwise the
\* dates are collected and returned
holiday_parse(res) ==
    /\ holiday.pc = "request"
    /\ cpc[HolidayCaller] = "idle"
    /\ cres[HolidayCaller] # "none"
    /\ IF cres[HolidayCaller] # "ok" \/ ~res.parsed
       THEN /\ holiday' = [pc |-> "returned", result |-> "err"]
            /\ schedule' = NoSchedule
       ELSE IF ~res.stat.some \/ to_uppercase(res.stat.val) # <<"O", "K">>
       THEN /\ holiday' = [pc |-> "report", result |-> "none"]
            /\ schedule' = [res |-> res, dates |-> <<>>, reports |-> 0]
       ELSE /\ holiday' = [pc |-> "returned", result |-> "ok_dates"]
            /\ schedule' = [res |-> res, dates |-> CollectDates(res.data), reports |-> 0]
    /\ UNCHANGED <<cres, telegram>>
    /\ HolidayFrame

\* report_error lines 53-57 and visit lines 30 / 37: the message is sent, an
\* error of send is logged, and visit returns Ok(result) with no dates
report_error(ok) ==
    /\ holiday.pc = "report"
    /\ telegram' = [telegram EXCEPT !.report = IF ok THEN "ok" ELSE "err"]
    /\ holiday' = [pc |-> "returned", result |-> "ok_empty"]
    /\ schedule' = [schedule EXCEPT !.reports = @ + 1]
    /\ UNCHANGED cres
    /\ HolidayFrame

(* ------------------------ scheduler ------------------------------------ *)
\* the triggers run_cron registers, in the order of registration; the run of
\* trigger j's job is caller j of request_send
Triggers == Callers

\* the number of run_and_log_task calls in the job of trigger j (one_am_job
\* has two, three_pm_job, three_one_pm_job and nine_pm_job have one)
JobTasks(j) == IF j = 1 THEN 2 ELSE 1

\* no run of the job is under way
NoRun == [task |-> 0, results |-> <<>>]

\* no message sent yet
NoMessage == [start |-> "none", report |-> "none"]

\* holiday_schedule::visit has not been called
NoVisit == [pc |-> "idle", result |-> "none"]

InitSchedVars ==
    /\ telegram = NoMessage
    /\ holiday = NoVisit
    /\ schedule = NoSchedule
    /\ start_pc = "run_cron"
    /\ sched = [jobs |-> {}, started |-> FALSE]
    /\ cron_result = "none"
    /\ job = [j \in Triggers |-> NoRun]

\* what a step of start() / run_cron() leaves alone
StartFrame ==
    UNCHANGED <<gateVars, taskVars, clock, last, job, runVars, serial, holiday, schedule>>

\* run_cron line 61: JobScheduler::new().await?
scheduler_new(ok) ==
    /\ start_pc = "run_cron"
    /\ IF ok
       THEN /\ start_pc' = "jobs"
            /\ UNCHANGED cron_result
       ELSE /\ start_pc' = "notify"
            /\ cron_result' = "new_err"
    /\ UNCHANGED <<sched, telegram>>
    /\ StartFrame

\* a variant of the registration whose failure is remembered while run_cron
\* goes on to start the scheduler with the triggers added so far
register_StartAnyway(outcome) ==
    /\ start_pc = "jobs"
    /\ LET j == Cardinality(sched.jobs) + 1
       IN  IF outcome = "ok"
           THEN /\ sched' = [sched EXCEPT !.jobs = @ \cup {j}]
                /\ start_pc' = IF j = NumCallers THEN "sched_start" ELSE "jobs"
                /\ UNCHANGED cron_result
           ELSE /\ start_pc' = "sched_start"
                /\ cron_result' = outcome
                /\ UNCHANGED sched
    /\ UNCHANGED telegram
    /\ StartFrame

\* run_cron lines 67-177: let job = Job::new_async(<cron>, ..)?; then
\* sched.add(job).await?; for the next trigger.  new_async fails on an
\* invalid cron expression ("cron_err"), add can fail too ("add_err"); either
\* error is returned by `?` at once.
register(outcome) ==
    /\ start_pc = "jobs"
    /\ LET j == Cardinality(sched.jobs) + 1
       IN  IF outcome = "ok"
           THEN /\ sched' = [sched EXCEPT !.jobs = @ \cup {j}]
                /\ start_pc' = IF j = NumCallers THEN "sched_start" ELSE "jobs"
                /\ UNCHANGED cron_result
           ELSE /\ start_pc' = "notify"
                /\ cron_result' = outcome
                /\ UNCHANGED sched
    /\ UNCHANGED telegram
    /\ StartFrame

\* run_cron lines 179-181: sched.start().await?; Ok(())
scheduler_start(ok) ==
    /\ start_pc = "sched_start"
    /\ IF ok
       THEN /\ sched' = [sched EXCEPT !.started = TRUE]
            /\ cron_result' = "ok"
       ELSE /\ cron_result' = "start_err"
            /\ UNCHANGED sched
    /\ start_pc' = "notify"
    /\ UNCHANGED telegram
    /\ StartFrame

\* a variant of the start-up message whose failure is escalated (.await.unwrap())
notify_Escalate(ok) ==
    /\ start_pc = "notify"
    /\ telegram' = [telegram EXCEPT !.start = IF ok THEN "ok" ELSE "err"]
    /\ start_pc' = IF ok THEN "done" ELSE "panicked"
    /\ UNCHANGED <<sched, cron_result>>
    /\ StartFrame

\* start lines 28-40: an Err of run_cron is logged, then the start-up message
\* is sent (its error is logged too) and start() returns
notify(ok) ==
    /\ start_pc = "notify"
    /\ telegram' = [telegram EXCEPT !.start = IF ok THEN "ok" ELSE "err"]
    /\ start_pc' = "done"
    /\ UNCHANGED <<sched, cron_result>>
    /\ StartFrame

\* what a step of a job's run leaves alone
JobFrame ==
    UNCHANGED <<SEMAPHORE, CLIENT, waiters, cpc, woken, taskVars, clock, last,
                start_pc, sched, cron_result, runVars, serial, notifyVars>>

\* the trigger of job j fires: the scheduler spawns a run of its closure,
\* which starts the first run_and_log_task
fire(j) ==
    /\ sched.started
    /\ j \in sched.jobs
    /\ job[j].task = 0
    /\ job' = [job EXCEPT ![j] = [task |-> 1, results |-> <<>>]]
    /\ cres' = [cres EXCEPT ![j] = "none"]
    /\ JobFrame

\* the run of job j is inside a task that has not made its request yet
InTask(j) == job[j].task > 0 /\ cres[j] = "none"

\* a variant of the end of a task in which an error ends the runs of all jobs
task_end_CancelAll(j, r) ==
    /\ job[j].task > 0
    /\ cpc[j] = "idle"
    /\ cres[j] # "none"
    /\ IF r = "err"
       THEN job' = [i \in Triggers |-> NoRun]
       ELSE job' = [job EXCEPT ![j] =
                      IF @.task = JobTasks(j) THEN NoRun
                      ELSE [task |-> @.task + 1, results |-> Append(@.results, r)]]
    /\ cres' = [cres EXCEPT ![j] = "none"]
    /\ JobFrame

\* a variant of the end of a task in which an error ends the run of the job
\* (the closure returning the task's error with `?`)
task_end_AbortOnError(j, r) ==
    /\ job[j].task > 0
    /\ cpc[j] = "idle"
    /\ cres[j] # "none"
    /\ job' = [job EXCEPT ![j] =
                  IF @.task = JobTasks(j) \/ r = "err" THEN NoRun
                  ELSE [task |-> @.task + 1, results |-> Append(@.results, r)]]
    /\ cres' = [cres EXCEPT ![j] = "none"]
    /\ JobFrame

\* run_and_log_task lines 48-58: task().await returns Ok or Err, either is
\* only logged; the closure goes on to its next run_and_log_task or ends
task_end(j, r) ==
    /\ job[j].task > 0
    /\ cpc[j] = "idle"
    /\ cres[j] # "none"
    /\ job' = [job EXCEPT ![j] =
                  IF @.task = JobTasks(j) THEN NoRun
                  ELSE [task |-> @.task + 1, results |-> Append(@.results, r)]]
    /\ cres' = [cres EXCEPT ![j] = "none"]
    /\ JobFrame

(* ------------------------ backfill task -------------------------------- *)
\* stock 0 stands for a preference share, 1..NumStocks for ordinary stocks
Stocks == 0..NumStocks

PreferenceShares == {0}

\* stock.is_preference_shares()
is_preference_shares(s) == s \in PreferenceShares

Years == {2023, 2024}

Quarters == {"Q1", "Q2"}

\* values of a net_asset_value_per_share column (Decimal::ZERO and a non-zero one)
NavValues == {0, 5}

\* what yahoo::profile::visit can return: an error or a Profile
\* values of an earnings_per_share column
EpsValues == {1, 2}

\* readings of Local::now()
Times == {1, 2}

\* what yahoo::profile::visit can return: an error or a Profile.  execute
\* takes no decision on a profile's earnings_per_share, so the profiles of
\* the Source Adapter carry one value of it.
FetchError == [ok |-> FALSE, year |-> 0, quarter |-> "", earnings_per_share |-> 0,
               net_asset_value_per_share |-> 0]

Profiles == [ok : {TRUE}, year : Years, quarter : Quarters, earnings_per_share : {1},
             net_asset_value_per_share : NavValues]

Responses == {FetchError} \cup Profiles

\* the ttl execute passes to set: 60 * 60 * 24 * 7
SentinelTTL == 60 * 60 * 24 * 7

NoEntry == [value |-> FALSE, ttl |-> 0]

NoStock == [stock_symbol |-> 0, net_asset_value_per_share |-> 0]

\* FinancialStatement::new: every field at its default
NoFs == [security_code |-> 0, year |-> 0, quarter |-> "", earnings_per_share |-> 0,
         net_asset_value_per_share |-> 0, created_time |-> 0, updated_time |-> 0]

\* the natural keys a row can have
Keys == Stocks \X Years \X Quarters

\* no row stored: no serial given out (0 stands for "no row")
NoSerials == [k \in Keys |-> 0]

\* no statement has run yet
NoCall == [op |-> "none", rec |-> NoFs, before |-> {}, serials |-> NoSerials, ok |-> TRUE]

\* what an execution has done so far: the calls it made and how they ended
NoTrace ==
    [invoked |-> FALSE, invokedWithSentinel |-> FALSE, cacheUp |-> TRUE,
     abandoned |-> FALSE, restarted |-> FALSE,
     reads |-> 0, readOk |-> FALSE, workset |-> {},
     visits |-> {}, calls |-> 0, fetchFailed |-> {},
     upserts |-> {}, failed |-> {}, updates |-> 0,
     resp |-> FetchError, rollups |-> 0, sets |-> 0, expired |-> FALSE]

\* no first run has been recorded
NoFirst ==
    [done |-> FALSE, financial_statement |-> {}, stock_nav |-> <<>>, upserted |-> {},
     serial |-> NoSerials, sentinel |-> NoEntry, workset |-> {}]

\* the locals of an execution that has not been invoked
NoLocals ==
    [pc |-> "idle", year |-> 0, quarter |-> "", stocks |-> {}, stock |-> NoStock,
     fs |-> NoFs, success_update_count |-> 0, result |-> "none", trace |-> NoTrace]

InitTaskVars ==
    /\ sentinel = NoEntry
    /\ financial_statement = {}
    /\ stock_nav = [s \in Stocks |-> 0]
    /\ pc = "idle"
    /\ year = 0
    /\ quarter = ""
    /\ stocks = {}
    /\ stock = NoStock
    /\ fs = NoFs
    /\ success_update_count = 0
    /\ result = "none"
    /\ now \in [year : Years, quarter : Quarters]
    /\ trace = NoTrace
    /\ clock = 1
    /\ last = NoCall
    /\ InitSchedVars
    /\ first = NoFirst
    /\ other = NoLocals
    /\ serial = NoSerials

\* nosql::redis::CLIENT.get_bool(key): true iff the entry is present and
\* unexpired; a backend failure is answered with false, never with an error.
get_bool(up) ==
    IF up THEN [ok |-> TRUE, val |-> sentinel.value]
          ELSE [ok |-> TRUE, val |-> FALSE]

\* nosql::redis::CLIENT.set(key, value, ttl_seconds)
redis_set(value, ttl) == [ok |-> TRUE, entry |-> [value |-> value, ttl |-> ttl]]

\* the entry of cache_key reaches the end of its TTL and disappears
expire ==
    /\ sentinel.value
    /\ sentinel' = NoEntry
    /\ trace' = [trace EXCEPT !.expired = TRUE]
    /\ UNCHANGED <<financial_statement, stock_nav, pc, year, quarter, stocks, stock,
                   fs, success_update_count, result, now>>
    /\ UNCHANGED <<gateVars, extVars>>

\* what a step inside execute() leaves alone in the stores
Frame == UNCHANGED <<sentinel, financial_statement, stock_nav, now>>

\* execute returns r: its locals go out of scope
Return(r) ==
    /\ pc' = "idle"
    /\ result' = r
    /\ year' = 0
    /\ quarter' = ""
    /\ stocks' = {}
    /\ stock' = NoStock
    /\ fs' = NoFs
    /\ success_update_count' = 0

\* `continue` / end of the loop body: the locals of the iteration go out of scope
Continue ==
    /\ pc' = "loop"
    /\ stock' = NoStock
    /\ fs' = NoFs

\* a variant of the sentinel check that never takes the early return
check_sentinel_NoJump(up) ==
    /\ pc = "idle"
    /\ trace' = [NoTrace EXCEPT !.invoked = TRUE,
                                !.invokedWithSentinel = sentinel.value, !.cacheUp = up,
                                !.restarted = trace.abandoned]
    /\ pc' = "fetch_stocks"
    /\ result' = "none"
    /\ UNCHANGED <<year, quarter, stocks, stock, fs, success_update_count>>
    /\ Frame
    /\ UNCHANGED <<gateVars, extVars>>

\* a variant of the sentinel check with the test inverted (`if !is_jump`)
check_sentinel_Inverted(up) ==
    /\ pc = "idle"
    /\ trace' = [NoTrace EXCEPT !.invoked = TRUE,
                                !.invokedWithSentinel = sentinel.value, !.cacheUp = up,
                                !.restarted = trace.abandoned]
    /\ LET is_jump == get_bool(up)
       IN  IF ~is_jump.ok
           THEN Return("err")
           ELSE IF ~is_jump.val
           THEN Return("ok")
           ELSE /\ pc' = "fetch_stocks"
                /\ result' = "none"
                /\ UNCHANGED <<year, quarter, stocks, stock, fs, success_update_count>>
    /\ Frame
    /\ UNCHANGED <<gateVars, extVars>>

\* execute lines 11-16: the invocation, get_bool(cache_key).await? and the
\* early return when is_jump
check_sentinel(up) ==
    /\ pc = "idle"
    /\ trace' = [NoTrace EXCEPT !.invoked = TRUE,
                                !.invokedWithSentinel = sentinel.value, !.cacheUp = up,
                                !.restarted = trace.abandoned]
    /\ LET is_jump == get_bool(up)
       IN  IF ~is_jump.ok
           THEN Return("err")
           ELSE IF is_jump.val
           THEN Return("ok")
           ELSE /\ pc' = "fetch_stocks"
                /\ result' = "none"
                /\ UNCHANGED <<year, quarter, stocks, stock, fs, success_update_count>>
    /\ Frame
    /\ UNCHANGED <<gateVars, extVars>>

\* the work items of a set of stocks, as read from the stocks table
WorkItems(S) == {[stock_symbol |-> s, net_asset_value_per_share |-> stock_nav[s]] : s \in S}

\* model::stock::fetch_stocks_without_financial_statement(year, quarter):
\* fails, or returns some of the stocks
ReadResults == [ok : {FALSE}, rows : {{}}] \cup [ok : {TRUE}, rows : SUBSET Stocks]

\* lines 18-22 once the read has succeeded
StartLoop(read) ==
    /\ year' = now.year
    /\ quarter' = now.quarter
    /\ stocks' = WorkItems(read.rows)
    /\ success_update_count' = 0
    /\ pc' = "loop"
    /\ UNCHANGED <<result, stock, fs>>

\* a variant of the read that swallows the error and goes on with no stocks
fetch_stocks_SwallowError(read) ==
    /\ pc = "fetch_stocks"
    /\ trace' = [trace EXCEPT !.reads = @ + 1, !.readOk = read.ok, !.workset = read.rows]
    /\ StartLoop(read)
    /\ Frame
    /\ UNCHANGED <<gateVars, extVars>>

\* a variant of the read that returns at once when there is nothing to do
fetch_stocks_ReturnOnEmpty(read) ==
    /\ pc = "fetch_stocks"
    /\ trace' = [trace EXCEPT !.reads = @ + 1, !.readOk = read.ok, !.workset = read.rows]
    /\ IF ~read.ok
       THEN Return("err")
       ELSE IF read.rows = {}
       THEN Return("ok")
       ELSE StartLoop(read)
    /\ Frame
    /\ UNCHANGED <<gateVars, extVars>>

\* a variant of the read that marks the task done before reading
fetch_stocks_SetFirst(read) ==
    /\ pc = "fetch_stocks"
    /\ sentinel' = redis_set(TRUE, SentinelTTL).entry
    /\ trace' = [trace EXCEPT !.reads = @ + 1, !.readOk = read.ok, !.workset = read.rows,
                              !.sets = @ + 1, !.expired = FALSE]
    /\ IF ~read.ok
       THEN Return("err")
       ELSE StartLoop(read)
    /\ UNCHANGED <<financial_statement, stock_nav, now>>
    /\ UNCHANGED <<gateVars, extVars>>

\* execute lines 18-22: the window is computed from the clock, the work set
\* is read with `?`, and the counter starts at 0
fetch_stocks(read) ==
    /\ pc = "fetch_stocks"
    /\ trace' = [trace EXCEPT !.reads = @ + 1, !.readOk = read.ok, !.workset = read.rows]
    /\ IF ~read.ok
       THEN Return("err")
       ELSE StartLoop(read)
    /\ Frame
    /\ UNCHANGED <<gateVars, extVars>>

\* a variant of the loop that does not skip preference shares
loop_next_NoSkip(item) ==
    /\ pc = "loop"
    /\ item \in stocks
    /\ stocks' = stocks \ {item}
    /\ pc' = "visit"
    /\ stock' = item
    /\ fs' = fs
    /\ UNCHANGED <<year, quarter, success_update_count, result, trace>>
    /\ Frame
    /\ UNCHANGED <<gateVars, extVars>>

\* execute lines 23-27: the loop takes the next stock (in the order the read
\* returned, which is any order) and skips a preference share
loop_next(item) ==
    /\ pc = "loop"
    /\ item \in stocks
    /\ stocks' = stocks \ {item}
    /\ IF is_preference_shares(item.stock_symbol)
       THEN Continue
       ELSE /\ pc' = "visit"
            /\ stock' = item
            /\ fs' = fs
    /\ UNCHANGED <<year, quarter, success_update_count, result, trace>>
    /\ Frame
    /\ UNCHANGED <<gateVars, extVars>>

\* a variant of the validation that compares the year only
WindowMismatch_YearOnly(y, q, profile) == y # profile.year

\* execute line 39: year != profile.year || quarter != profile.quarter
WindowMismatch(y, q, profile) == y # profile.year \/ q # profile.quarter

\* impl From<yahoo::profile::Profile> for FinancialStatement: the fields of
\* the profile, and Local::now() (reading t) in updated_time and created_time
EntityFrom(symbol, profile, t) ==
    [security_code |-> symbol, year |-> profile.year, quarter |-> profile.quarter,
     earnings_per_share |-> profile.earnings_per_share,
     net_asset_value_per_share |-> profile.net_asset_value_per_share,
     created_time |-> t, updated_time |-> t]

\* a variant of the Source Adapter call that is repeated until it succeeds
visit_RetryOnError(resp) ==
    /\ pc = "visit"
    /\ LET s == stock.stock_symbol
           t == [trace EXCEPT !.visits = @ \cup {s}, !.calls = @ + 1]
       IN  IF ~resp.ok
           THEN /\ trace' = [t EXCEPT !.failed = @ \cup {"fetch"},
                                      !.fetchFailed = @ \cup {s}]
                /\ UNCHANGED <<pc, stock, fs>>
           ELSE IF WindowMismatch(year, quarter, resp)
           THEN /\ trace' = [t EXCEPT !.failed = @ \cup {"mismatch"}]
                /\ Continue
           ELSE /\ trace' = [t EXCEPT !.resp = resp]
                /\ pc' = "upsert"
                /\ fs' = EntityFrom(s, resp, clock)
                /\ stock' = stock
    /\ UNCHANGED <<year, quarter, stocks, success_update_count, result>>
    /\ Frame
    /\ UNCHANGED <<gateVars, extVars>>

\* execute lines 28-47: the Source Adapter call, the skip on error, the
\* validation of the returned window and the construction of fs
visit(resp) ==
    /\ pc = "visit"
    /\ LET s == stock.stock_symbol
           t == [trace EXCEPT !.visits = @ \cup {s}, !.calls = @ + 1]
       IN  IF ~resp.ok
           THEN /\ trace' = [t EXCEPT !.failed = @ \cup {"fetch"},
                                      !.fetchFailed = @ \cup {s}]
                /\ Continue
           ELSE IF WindowMismatch(year, quarter, resp)
           THEN /\ trace' = [t EXCEPT !.failed = @ \cup {"mismatch"}]
                /\ Continue
           ELSE /\ trace' = [t EXCEPT !.resp = resp]
                /\ pc' = "upsert"
                /\ fs' = EntityFrom(s, resp, clock)
                /\ stock' = stock
    /\ UNCHANGED <<year, quarter, stocks, success_update_count, result>>
    /\ Frame
    /\ UNCHANGED <<gateVars, extVars>>

\* ON CONFLICT (security_code, "year", quarter)
SameKey(a, b) ==
    /\ a.security_code = b.security_code
    /\ a.year = b.year
    /\ a.quarter = b.quarter

\* the row a conflicting upsert leaves: DO UPDATE SET <the data fields> =
\* EXCLUDED.<..>, updated_time = EXCLUDED.updated_time; created_time is not in
\* the SET list and stays
Updated(r, e) ==
    [r EXCEPT !.earnings_per_share = e.earnings_per_share,
              !.net_asset_value_per_share = e.net_asset_value_per_share,
              !.updated_time = e.updated_time]

\* (security_code, "year", quarter) of a record
Key(r) == <<r.security_code, r.year, r.quarter>>

\* the default of column serial: the next value of its sequence
NextSerial(col) == 1 + Cardinality({k \in Keys : col[k] # 0})

\* a variant of the statement that replaces a conflicting row by a new one
\* (DELETE, then INSERT), which draws a new serial
SerialAfter_Replace(col, table, e) == [col EXCEPT ![Key(e)] = NextSerial(col)]

\* column serial after the statement: serial is neither in the INSERT column
\* list nor in the SET list, so an inserted row gets the column default and a
\* conflicting row keeps its serial
SerialAfter(col, table, e) ==
    IF \E r \in table : SameKey(r, e)
    THEN col
    ELSE [col EXCEPT ![Key(e)] = NextSerial(col)]

\* a variant of the conflict action that also sets created_time
\* (.., created_time = EXCLUDED.created_time)
Upsert_SetCreated(table, e) ==
    IF \E r \in table : SameKey(r, e)
    THEN {IF SameKey(r, e) THEN [Updated(r, e) EXCEPT !.created_time = e.created_time]
                           ELSE r : r \in table}
    ELSE table \cup {e}

\* a variant of the statement without its ON CONFLICT clause on a table
\* without the unique index
Upsert_PlainInsert(table, e) == table \cup {e}

\* a variant of the conflict action that adds to the stored earnings
\* (SET earnings_per_share = financial_statement.earnings_per_share + EXCLUDED..)
Upsert_Accumulate(table, e) ==
    IF \E r \in table : SameKey(r, e)
    THEN {IF SameKey(r, e)
          THEN [Updated(r, e) EXCEPT !.earnings_per_share =
                                         r.earnings_per_share + e.earnings_per_share]
          ELSE r : r \in table}
    ELSE table \cup {e}

\* a variant of the statement whose write of updated_time is not limited to
\* the conflicting row
Upsert_StampAll(table, e) ==
    LET t == IF \E r \in table : SameKey(r, e)
             THEN {IF SameKey(r, e) THEN Updated(r, e) ELSE r : r \in table}
             ELSE table \cup {e}
    IN  {[r EXCEPT !.updated_time = e.updated_time] : r \in t}

\* FinancialStatement::upsert: INSERT (key, data fields, created_time,
\* updated_time) .. ON CONFLICT (security_code, "year", quarter) DO UPDATE SET ..
Upsert(table, e) ==
    IF \E r \in table : SameKey(r, e)
    THEN {IF SameKey(r, e) THEN Updated(r, e) ELSE r : r \in table}
    ELSE table \cup {e}

\* the value of a column the INSERT of upsert_earnings_per_share does not list
ColumnDefault == 0

\* the row upsert_earnings_per_share inserts: security_code, "year", quarter,
\* earnings_per_share, created_time, updated_time
EpsRow(e) ==
    [security_code |-> e.security_code, year |-> e.year, quarter |-> e.quarter,
     earnings_per_share |-> e.earnings_per_share,
     net_asset_value_per_share |-> ColumnDefault,
     created_time |-> e.created_time, updated_time |-> e.updated_time]

\* a variant of the statement that overwrites on conflict
UpsertEarningsPerShare_Overwrite(table, e) ==
    {r \in table : ~SameKey(r, e)} \cup {EpsRow(e)}

\* FinancialStatement::upsert_earnings_per_share: INSERT .. ON CONFLICT
\* (security_code, "year", quarter) DO NOTHING
UpsertEarningsPerShare(table, e) ==
    IF \E r \in table : SameKey(r, e) THEN table ELSE table \cup {EpsRow(e)}

\* a variant of the steps after the upsert that issues the secondary update
\* whatever the stock's stored net asset value is
AfterUpsert_IgnoreStored ==
    /\ financial_statement' = Upsert(financial_statement, fs)
    /\ serial' = SerialAfter(serial, financial_statement, fs)
    /\ IF fs.net_asset_value_per_share # 0
       THEN /\ stock' = [stock EXCEPT !.net_asset_value_per_share =
                                          fs.net_asset_value_per_share]
            /\ pc' = "update"
            /\ fs' = fs
            /\ trace' = [trace EXCEPT !.upserts = @ \cup {fs}]
            /\ UNCHANGED success_update_count
       ELSE /\ Continue
            /\ trace' = [trace EXCEPT !.upserts = @ \cup {fs}, !.resp = FetchError]
            /\ success_update_count' = success_update_count + success_update_count
    /\ UNCHANGED <<year, quarter, stocks, result>>

\* lines 54-62 and 76: after a successful upsert the stock's stored net asset
\* value decides whether the secondary update runs; otherwise the counter
\* line is reached and the iteration ends
AfterUpsert ==
    /\ financial_statement' = Upsert(financial_statement, fs)
    /\ serial' = SerialAfter(serial, financial_statement, fs)
    /\ IF stock.net_asset_value_per_share = 0 /\ fs.net_asset_value_per_share # 0
       THEN /\ stock' = [stock EXCEPT !.net_asset_value_per_share =
                                          fs.net_asset_value_per_share]
            /\ pc' = "update"
            /\ fs' = fs
            /\ trace' = [trace EXCEPT !.upserts = @ \cup {fs}]
            /\ UNCHANGED success_update_count
       ELSE /\ Continue
            /\ trace' = [trace EXCEPT !.upserts = @ \cup {fs}, !.resp = FetchError]
            /\ success_update_count' = success_update_count + success_update_count
    /\ UNCHANGED <<year, quarter, stocks, result>>

\* a variant of the write step that propagates the error (`fs.upsert().await?`)
upsert_AbortOnError(ok) ==
    /\ pc = "upsert"
    /\ IF ~ok
       THEN /\ trace' = [trace EXCEPT !.failed = @ \cup {"upsert"}, !.resp = FetchError]
            /\ Return("err")
            /\ UNCHANGED <<financial_statement, serial>>
       ELSE AfterUpsert
    /\ UNCHANGED <<sentinel, stock_nav, now>>
    /\ UNCHANGED <<gateVars, restVars>>

\* execute lines 49-62 and 76: fs.upsert(); an error is logged and the loop
\* continues
upsert(ok) ==
    /\ pc = "upsert"
    /\ IF ~ok
       THEN /\ trace' = [trace EXCEPT !.failed = @ \cup {"upsert"}, !.resp = FetchError]
            /\ Continue
            /\ UNCHANGED <<financial_statement, serial, success_update_count,
                           year, quarter, stocks, result>>
       ELSE AfterUpsert
    /\ UNCHANGED <<sentinel, stock_nav, now>>
    /\ UNCHANGED <<gateVars, restVars>>

\* a variant of the counter line that counts the item (success_update_count += 1)
update_CountOne(ok) ==
    /\ pc = "update"
    /\ stock_nav' = IF ok THEN [stock_nav EXCEPT ![stock.stock_symbol] =
                                    stock.net_asset_value_per_share]
                          ELSE stock_nav
    /\ trace' = [trace EXCEPT !.updates = @ + 1, !.resp = FetchError]
    /\ success_update_count' = success_update_count + 1
    /\ Continue
    /\ UNCHANGED <<sentinel, financial_statement, now, year, quarter, stocks, result>>
    /\ UNCHANGED <<gateVars, extVars>>

\* a variant of the secondary update whose failure rolls the upsert back
update_RollBack(ok) ==
    /\ pc = "update"
    /\ stock_nav' = IF ok THEN [stock_nav EXCEPT ![stock.stock_symbol] =
                                    stock.net_asset_value_per_share]
                          ELSE stock_nav
    /\ financial_statement' = IF ok THEN financial_statement
                              ELSE {r \in financial_statement : ~SameKey(r, fs)}
    /\ trace' = [trace EXCEPT !.updates = @ + 1, !.resp = FetchError]
    /\ success_update_count' = success_update_count + success_update_count
    /\ Continue
    /\ UNCHANGED <<sentinel, now, year, quarter, stocks, result>>
    /\ UNCHANGED <<gateVars, extVars>>

\* execute lines 63-76: net_asset_value_per_share::update(&stock); its error is
\* only logged; then success_update_count += success_update_count
update(ok) ==
    /\ pc = "update"
    /\ stock_nav' = IF ok THEN [stock_nav EXCEPT ![stock.stock_symbol] =
                                    stock.net_asset_value_per_share]
                          ELSE stock_nav
    /\ trace' = [trace EXCEPT !.updates = @ + 1, !.resp = FetchError]
    /\ success_update_count' = success_update_count + success_update_count
    /\ Continue
    /\ UNCHANGED <<sentinel, financial_statement, now, year, quarter, stocks, result>>
    /\ UNCHANGED <<gateVars, extVars>>

\* a variant of the end of the run that marks the task done only when
\* something was updated
finish_OnlyIfUpdated(rollup) ==
    /\ pc = "loop"
    /\ stocks = {}
    /\ IF success_update_count > 0
       THEN /\ sentinel' = redis_set(TRUE, SentinelTTL).entry
            /\ trace' = [trace EXCEPT !.sets = @ + 1, !.expired = FALSE]
            /\ Return(IF rollup THEN "ok" ELSE "err")
       ELSE /\ Return("ok")
            /\ UNCHANGED <<sentinel, trace>>
    /\ UNCHANGED <<financial_statement, stock_nav, now>>
    /\ UNCHANGED <<gateVars, extVars>>

\* a variant of the end of the run that deletes the entry after a run in which
\* an item failed
finish_DeleteOnFailure(rollup) ==
    /\ pc = "loop"
    /\ stocks = {}
    /\ IF trace.failed # {}
       THEN /\ sentinel' = NoEntry
            /\ trace' = trace
            /\ Return("ok")
       ELSE /\ sentinel' = redis_set(TRUE, SentinelTTL).entry
            /\ trace' = [trace EXCEPT !.sets = @ + 1, !.expired = FALSE]
            /\ Return("ok")
    /\ UNCHANGED <<financial_statement, stock_nav, now>>
    /\ UNCHANGED <<gateVars, extVars>>

\* execute lines 77-87: the loop is over; update_last_eps()? runs only when the
\* counter is positive; then set(cache_key, true, 60 * 60 * 24 * 7)? and Ok(())
finish(rollup) ==
    /\ pc = "loop"
    /\ stocks = {}
    /\ LET called == success_update_count > 0
           t == [trace EXCEPT !.rollups = IF called THEN @ + 1 ELSE @]
       IN  IF called /\ ~rollup
           THEN /\ Return("err")
                /\ trace' = t
                /\ UNCHANGED sentinel
           ELSE LET r == redis_set(TRUE, SentinelTTL)
                IN  IF ~r.ok
                    THEN /\ Return("err")
                         /\ trace' = t
                         /\ UNCHANGED sentinel
                    ELSE /\ sentinel' = r.entry
                         /\ trace' = [t EXCEPT !.sets = @ + 1, !.expired = FALSE]
                         /\ Return("ok")
    /\ UNCHANGED <<financial_statement, stock_nav, now>>
    /\ UNCHANGED <<gateVars, extVars>>

(* ------------------------ the statements on the table ------------------ *)
\* the natural keys the statements are run with
UpsertKeys == {<<1, 2024, "Q1">>, <<1, 2024, "Q2">>}

\* the entities a caller can hand to upsert / upsert_earnings_per_share: the
\* From impls stamp updated_time and created_time with Local::now() together
Records ==
    {[security_code |-> k[1], year |-> k[2], quarter |-> k[3],
      earnings_per_share |-> e, net_asset_value_per_share |-> n,
      created_time |-> t, updated_time |-> t] :
        k \in UpsertKeys, e \in EpsValues, n \in NavValues, t \in Times}

\* what a statement leaves alone
StatementFrame ==
    /\ UNCHANGED <<sentinel, stock_nav, pc, year, quarter, stocks, stock, fs,
                   success_update_count, result, now, trace, clock>>
    /\ UNCHANGED <<gateVars, schedVars, runVars, notifyVars>>

\* FinancialStatement::upsert(self): the statement runs (ok) or the database
\* call fails and the error is returned
db_upsert(e, ok) ==
    /\ financial_statement' = IF ok THEN Upsert(financial_statement, e)
                                    ELSE financial_statement
    /\ serial' = IF ok THEN SerialAfter(serial, financial_statement, e) ELSE serial
    /\ last' = [op |-> "upsert", rec |-> e, before |-> financial_statement,
                serials |-> serial, ok |-> ok]
    /\ StatementFrame

\* FinancialStatement::upsert_earnings_per_share(&self)
db_upsert_earnings_per_share(e, ok) ==
    /\ financial_statement' = IF ok THEN UpsertEarningsPerShare(financial_statement, e)
                                    ELSE financial_statement
    /\ serial' = IF ok THEN SerialAfter(serial, financial_statement, e) ELSE serial
    /\ last' = [op |-> "upsert_earnings_per_share", rec |-> e,
                before |-> financial_statement, serials |-> serial, ok |-> ok]
    /\ StatementFrame

(* ------------------------ specifications ------------------------------ *)
\* the Source Adapter of the specifications that do not fix its answers:
\* their visit step draws the response
AnySource == [s \in Stocks |-> FetchError]

\* the Persistence Port of the specifications that do not fix its outcomes:
\* their write steps draw the outcome
AnyPort == [s \in Stocks |-> [upsert |-> TRUE, update |-> TRUE]]

Init == InitGateVars /\ InitTaskVars /\ source = AnySource /\ port = AnyPort

Next ==
    \/ \E up \in BOOLEAN : check_sentinel(up)
    \/ \E read \in ReadResults : fetch_stocks(read)
    \/ \E item \in stocks : loop_next(item)
    \/ \E resp \in Responses : visit(resp)
    \/ \E ok \in BOOLEAN : upsert(ok)
    \/ \E ok \in BOOLEAN : update(ok)
    \/ \E rollup \in BOOLEAN : finish(rollup)
    \/ expire

Spec == Init /\ [][Next]_vars

InitGate == Init /\ now = [year |-> 2024, quarter |-> "Q1"]

\* the Source Adapter answers of the specifications that run the task twice: the
\* same response for a stock whenever it is asked (the preference share is
\* never asked)
FixedSources ==
    {f \in [Stocks -> Responses] : \A s \in PreferenceShares : f[s] = FetchError}

InitFixed ==
    /\ InitGateVars
    /\ InitTaskVars
    /\ now = [year |-> 2024, quarter |-> "Q1"]
    /\ source \in FixedSources
    /\ port = AnyPort

\* fetch_stocks_without_financial_statement(year, quarter): the stocks whose
\* stored record for the window is absent or a zero placeholder
Missing ==
    {s \in Stocks :
        \A r \in financial_statement :
            (r.security_code = s /\ r.year = now.year /\ r.quarter = now.quarter)
                => r.net_asset_value_per_share = 0}

\* the work-set read of the runs that are compared: it fails, or returns Missing
MissingReads == {[ok |-> FALSE, rows |-> {}], [ok |-> TRUE, rows |-> Missing]}

\* the first run is over: the stores are recorded, the sentinel is cleared and
\* the task is ready to be run again, later
rerun ==
    /\ ~first.done
    /\ trace.invoked /\ pc = "idle"
    /\ first' = [done |-> TRUE, financial_statement |-> financial_statement,
                 stock_nav |-> stock_nav,
                 upserted |-> {e.security_code : e \in trace.upserts},
                 serial |-> serial, sentinel |-> sentinel, workset |-> trace.workset]
    /\ sentinel' = NoEntry
    /\ clock' = clock + 1
    /\ trace' = NoTrace
    /\ UNCHANGED <<financial_statement, stock_nav, pc, year, quarter, stocks, stock, fs,
                   success_update_count, result, now>>
    /\ UNCHANGED <<gateVars, last, schedVars, source, other, port, serial, notifyVars>>

NextTwice ==
    \/ \E up \in BOOLEAN : ~trace.invoked /\ check_sentinel(up)
    \/ \E read \in MissingReads : fetch_stocks(read)
    \/ \E item \in stocks : loop_next(item)
    \/ visit(source[stock.stock_symbol])
    \/ \E ok \in BOOLEAN : upsert(ok)
    \/ \E ok \in BOOLEAN : update(ok)
    \/ \E rollup \in BOOLEAN : finish(rollup)
    \/ rerun

SpecTwice == InitFixed /\ [][NextTwice]_vars

\* the locals of the stepping execution
Locals ==
    [pc |-> pc, year |-> year, quarter |-> quarter, stocks |-> stocks, stock |-> stock,
     fs |-> fs, success_update_count |-> success_update_count, result |-> result,
     trace |-> trace]

\* the runtime passes from the stepping execution to the other one
switch ==
    /\ trace.invoked
    /\ ~(other.trace.invoked /\ other.pc = "idle")
    /\ other' = Locals
    /\ pc' = other.pc
    /\ year' = other.year
    /\ quarter' = other.quarter
    /\ stocks' = other.stocks
    /\ stock' = other.stock
    /\ fs' = other.fs
    /\ success_update_count' = other.success_update_count
    /\ result' = other.result
    /\ trace' = other.trace
    /\ UNCHANGED <<sentinel, financial_statement, stock_nav, now>>
    /\ UNCHANGED <<gateVars, clock, last, schedVars, source, first, port, serial, notifyVars>>

\* time passes
tick ==
    /\ clock + 1 \in Times
    /\ clock' = clock + 1
    /\ UNCHANGED <<gateVars, taskVars, last, schedVars, runVars, serial, notifyVars>>

NextOverlap ==
    \/ \E up \in BOOLEAN : ~trace.invoked /\ check_sentinel(up)
    \/ \E read \in MissingReads : fetch_stocks(read)
    \/ \E item \in stocks : loop_next(item)
    \/ visit(source[stock.stock_symbol])
    \/ \E ok \in BOOLEAN : upsert(ok)
    \/ \E ok \in BOOLEAN : update(ok)
    \/ \E rollup \in BOOLEAN : finish(rollup)
    \/ switch
    \/ tick

\* the overlapping executions are checked with the answers whose year is the
\* requested one: an error, or a profile of the requested or of another quarter
InitOverlap ==
    /\ InitFixed
    /\ \A s \in Stocks : source[s].ok => source[s].year = now.year

SpecOverlap == InitOverlap /\ [][NextOverlap]_vars

\* the process is shut down while a run is under way: the future of execute
\* is dropped at the .await it is suspended at, and its locals with it; the
\* stores keep what the run has written
shutdown ==
    /\ pc # "idle"
    /\ trace' = [trace EXCEPT !.abandoned = TRUE]
    /\ Return("none")
    /\ Frame
    /\ UNCHANGED <<gateVars, extVars>>

NextRestart ==
    \/ Next
    \/ shutdown

SpecRestart == InitGate /\ [][NextRestart]_vars

\* the outcomes of the Persistence Port writes of the runs whose items are
\* followed one by one: for every stock, whether fs.upsert() and
\* net_asset_value_per_share::update succeed (the preference share is never
\* written)
FixedPorts ==
    {f \in [Stocks -> [upsert : BOOLEAN, update : BOOLEAN]] :
        \A s \in PreferenceShares : f[s] = [upsert |-> TRUE, update |-> TRUE]}

InitItems ==
    /\ InitGateVars
    /\ InitTaskVars
    /\ now = [year |-> 2024, quarter |-> "Q1"]
    /\ source \in FixedSources
    /\ \A s \in Stocks : source[s].ok => source[s].year = now.year
    /\ port \in FixedPorts

\* the run is over: its outcome is recorded and the stores are put back as
\* they were before it, for a second run over the same work set
replay ==
    /\ ~first.done
    /\ trace.invoked /\ pc = "idle"
    /\ trace.readOk
    /\ first' = [done |-> TRUE, financial_statement |-> financial_statement,
                 stock_nav |-> stock_nav,
                 upserted |-> {e.security_code : e \in trace.upserts},
                 serial |-> serial, sentinel |-> sentinel, workset |-> trace.workset]
    /\ sentinel' = NoEntry
    /\ financial_statement' = {}
    /\ stock_nav' = [s \in Stocks |-> 0]
    /\ serial' = NoSerials
    /\ clock' = 1
    /\ trace' = NoTrace
    /\ UNCHANGED <<pc, year, quarter, stocks, stock, fs, success_update_count, result, now>>
    /\ UNCHANGED <<gateVars, last, schedVars, source, other, port, notifyVars>>

\* the work-set reads of the two runs: any read in the first, the same work
\* set in the second
ItemReads ==
    IF first.done THEN {[ok |-> TRUE, rows |-> first.workset]} ELSE ReadResults

NextItems ==
    \/ \E up \in BOOLEAN : ~trace.invoked /\ check_sentinel(up)
    \/ \E read \in ItemReads : fetch_stocks(read)
    \/ \E item \in stocks : loop_next(item)
    \/ visit(source[stock.stock_symbol])
    \/ upsert(port[stock.stock_symbol].upsert)
    \/ update(port[stock.stock_symbol].update)
    \/ \E rollup \in BOOLEAN : finish(rollup)
    \/ tick
    \/ replay

SpecItems == InitItems /\ [][NextItems]_vars

NextGate ==
    \/ \E c \in Callers, built \in BOOLEAN : get_client(c, built)
    \/ \E c \in Callers, cpus \in 1..MaxCpus : acquire(c, cpus)
    \/ \E c \in Callers, ok \in BOOLEAN : send(c, ok)
    \/ \E c \in Callers : read_body(c)

SpecGate == InitGate /\ [][NextGate]_vars

\* every outbound call in flight completes: rb.send().await returns, with a
\* response or with an error
SendCompletes == \A c \in Callers : WF_vars(\E ok \in BOOLEAN : send(c, ok))

SpecGateFair == InitGate /\ [][NextGate]_vars /\ SendCompletes

\* start() and the runs of the jobs; the task of a run makes its outbound
\* request through request_send
NextSched ==
    \/ \E ok \in BOOLEAN : scheduler_new(ok)
    \/ \E outcome \in {"ok", "cron_err", "add_err"} : register(outcome)
    \/ \E ok \in BOOLEAN : scheduler_start(ok)
    \/ \E ok \in BOOLEAN : notify(ok)
    \/ \E j \in Triggers : fire(j)
    \/ \E j \in Triggers, built \in BOOLEAN : InTask(j) /\ get_client(j, built)
    \/ \E j \in Triggers, cpus \in 1..MaxCpus : acquire(j, cpus)
    \/ \E j \in Triggers, ok \in BOOLEAN : send(j, ok)
    \/ \E j \in Triggers : read_body(j)
    \/ \E j \in Triggers, r \in {"ok", "err"} : task_end(j, r)

SpecSched == InitGate /\ [][NextSched]_vars

NextNotify ==
    \/ \E ok \in BOOLEAN : scheduler_new(ok)
    \/ \E outcome \in {"ok", "cron_err", "add_err"} : register(outcome)
    \/ \E ok \in BOOLEAN : scheduler_start(ok)
    \/ \E ok \in BOOLEAN : notify(ok)
    \/ holiday_begin
    \/ \E built \in BOOLEAN : InVisit /\ get_client(HolidayCaller, built)
    \/ \E cpus \in 1..MaxCpus : acquire(HolidayCaller, cpus)
    \/ \E ok \in BOOLEAN : send(HolidayCaller, ok)
    \/ read_body(HolidayCaller)
    \/ \E res \in HolidayResponses : holiday_parse(res)
    \/ \E ok \in BOOLEAN : report_error(ok)

SpecNotify == InitGate /\ [][NextNotify]_vars

NextUpsert ==
    \/ \E e \in Records, ok \in BOOLEAN : db_upsert(e, ok)
    \/ \E e \in Records, ok \in BOOLEAN : db_upsert_earnings_per_share(e, ok)

SpecUpsert == InitGate /\ [][NextUpsert]_vars

(* ------------------------ Fetch Gate claims ---------------------------- *)
\* callers between a completed acquire and the return of request_send
Holders == {c \in Callers : cpc[c] = "sending"}

Suspended == {c \in Callers : cpc[c] = "waiting"}

\* C1: at no instant do more callers hold a permit than the gate capacity
\* (4 x CPU count, fixed at first use), and a caller is suspended at acquire
\* only while all permits are held.
C1_ConcurrencyCap ==
    /\ SEMAPHORE.init => SEMAPHORE.capacity \in {4 * n : n \in 1..MaxCpus}
    /\ Cardinality(Holders) <= SEMAPHORE.capacity
    /\ Suspended # {} => Cardinality(Holders) = SEMAPHORE.capacity
    /\ Suspended = {waiters[i] : i \in 1..Len(waiters)}

C1_Witness ==
    /\ Cardinality(Holders) = SEMAPHORE.capacity
    /\ SEMAPHORE.capacity = 4
    /\ Suspended # {}

\* C2: no permit is leaked: permits held plus permits available always equal
\* the initial capacity, and with no call in flight all permits are available.
C2_NoPermitLeak ==
    SEMAPHORE.init =>
        /\ Cardinality(Holders) + SEMAPHORE.permits = SEMAPHORE.capacity
        /\ (\A c \in Callers : cpc[c] \in {"idle", "returned"})
               => SEMAPHORE.permits = SEMAPHORE.capacity

C2_Witness ==
    /\ SEMAPHORE.init
    /\ \A c \in Callers : cpc[c] = "idle"
    /\ \E c \in Callers : cres[c] = "send_err"
    /\ \E c \in Callers : cres[c] = "ok"
    /\ SEMAPHORE.permits = SEMAPHORE.capacity

(* ------------------------ backfill task claims ------------------------- *)
\* an execution has been invoked and has returned
Ended == trace.invoked /\ pc = "idle"

\* the execution did nothing but return: no read, no fetch, no write
NothingDone ==
    /\ trace.reads = 0
    /\ trace.visits = {}
    /\ trace.upserts = {}
    /\ trace.updates = 0
    /\ trace.sets = 0

\* the non-preference items of the work set the read returned
Eligible == {s \in trace.workset : ~(s \in PreferenceShares)}

C5_ValidationGuard ==
    /\ pc \in {"upsert", "update"} =>
          /\ trace.resp.ok
          /\ trace.resp.year = now.year
          /\ trace.resp.quarter = now.quarter
          /\ fs.year = trace.resp.year
          /\ fs.quarter = trace.resp.quarter
    /\ \A r \in financial_statement : r.year = now.year /\ r.quarter = now.quarter
    /\ "mismatch" \in trace.failed => Cardinality(trace.upserts) < Cardinality(trace.visits)

C5_Witness ==
    /\ Ended
    /\ "mismatch" \in trace.failed
    /\ trace.upserts # {}
    /\ Cardinality(trace.visits) = 2

\* C6: an upsert failure does not abort the run: every other item of the work
\* set is still attempted and every item whose upsert succeeded is persisted.
C6_PartialFailureIsolation ==
    (Ended /\ "upsert" \in trace.failed)
        => /\ result = "ok"
           /\ trace.visits = Eligible
           /\ \A e \in trace.upserts : e \in financial_statement

C6_Witness ==
    /\ Ended
    /\ "upsert" \in trace.failed
    /\ trace.upserts # {}
    /\ trace.upserts \subseteq financial_statement

\* C7: a run that passed the sentinel check and whose read succeeded ends by
\* setting the sentinel with the 7-day TTL, whatever failed for single items.
C7_SentinelAlwaysSet ==
    (Ended /\ trace.reads = 1 /\ trace.readOk)
        => /\ result = "ok"
           /\ trace.sets = 1
           /\ trace.expired \/ sentinel = [value |-> TRUE, ttl |-> 7 * 86400]

C7_Witness ==
    /\ Ended
    /\ trace.readOk
    /\ Cardinality(trace.failed) >= 2
    /\ trace.upserts = {}
    /\ sentinel = [value |-> TRUE, ttl |-> 604800]

\* C8 as stated: the sentinel is set only after full task success, a run in
\* which something failed leaves no sentinel.
C8_Original == trace.sets > 0 => trace.failed = {}

\* C8 (amended): the sentinel is set only as the last step of a run that did
\* not abort (sentinel check passed, read succeeded, every item processed,
\* whether or not single items failed); a run that aborts with an error
\* writes no sentinel, so the next trigger retries from scratch.
C8_SentinelOnlyAtEnd ==
    /\ trace.sets <= 1
    /\ trace.sets = 1 =>
          /\ Ended
          /\ result = "ok"
          /\ trace.readOk
          /\ trace.visits = Eligible
    /\ (Ended /\ result = "err") =>
          /\ trace.sets = 0
          /\ sentinel.value => trace.invokedWithSentinel

C8_Witness ==
    /\ Ended
    /\ trace.sets = 1
    /\ trace.failed # {}
    /\ sentinel.value

\* C9: a failed read of the work set aborts the run with an error: no Source
\* Adapter call, no upsert, no sentinel write, so the task stays eligible.
C9_ReadFailureAborts ==
    (trace.reads = 1 /\ ~trace.readOk)
        => /\ Ended
           /\ result = "err"
           /\ trace.visits = {}
           /\ trace.upserts = {}
           /\ trace.updates = 0
           /\ trace.sets = 0
           /\ sentinel.value => trace.invokedWithSentinel

C9_Witness ==
    /\ Ended
    /\ trace.reads = 1
    /\ ~trace.readOk
    /\ result = "err"
    /\ ~sentinel.value

\* C10: with an empty work set the run completes successfully with zero
\* Source Adapter calls and zero upserts, and still sets the sentinel.
C10_EmptyWorkSet ==
    (Ended /\ trace.readOk /\ trace.workset = {})
        => /\ result = "ok"
           /\ trace.visits = {}
           /\ trace.upserts = {}
           /\ trace.sets = 1
           /\ trace.expired \/ sentinel.value

C10_Witness ==
    /\ Ended
    /\ trace.readOk
    /\ trace.workset = {}
    /\ result = "ok"
    /\ trace.sets = 1
    /\ sentinel.value

(* ------------------------ claims on the statements --------------------- *)
\* the stored row of the natural key of e, if any
RowOf(table, e) == {r \in table : SameKey(r, e)}

\* the natural key is unique in the table
UniqueKeys(table) == \A a, b \in table : SameKey(a, b) => a = b

\* C12: upsert is idempotent: from any stored state, applying the same
\* validated record a second time leaves exactly the stored state obtained by
\* applying it once.
C12_UpsertIdempotent ==
    (last.op = "upsert" /\ last.ok) =>
        /\ financial_statement = Upsert(last.before, last.rec)
        /\ Upsert(financial_statement, last.rec) = financial_statement

\* an upsert has hit a stored row of its key and changed its data
C12_Witness ==
    /\ last.op = "upsert" /\ last.ok
    /\ \E r \in last.before :
          /\ SameKey(r, last.rec)
          /\ r.earnings_per_share # last.rec.earnings_per_share
          /\ r.created_time # last.rec.created_time

C14_PartialNeverOverwrites ==
    (last.op = "upsert_earnings_per_share" /\ last.ok) =>
        IF RowOf(last.before, last.rec) # {}
        THEN financial_statement = last.before
        ELSE /\ financial_statement = last.before \cup {EpsRow(last.rec)}
             /\ EpsRow(last.rec) \notin last.before

\* upsert_earnings_per_share has met a stored row with other earnings
C14_Witness ==
    /\ last.op = "upsert_earnings_per_share" /\ last.ok
    /\ \E r \in last.before :
          SameKey(r, last.rec) /\ r.earnings_per_share # last.rec.earnings_per_share

\* C15: after any sequence of upsert and upsert_earnings_per_share calls the
\* table holds at most one row per natural key.
C15_UniqueNaturalKey == UniqueKeys(financial_statement)

\* both statements have run on the same key, the second on the stored row
C15_Witness ==
    /\ last.op = "upsert" /\ last.ok
    /\ \E r \in last.before :
          /\ SameKey(r, last.rec)
          /\ r.net_asset_value_per_share = ColumnDefault
          /\ last.rec.net_asset_value_per_share # ColumnDefault
    /\ Cardinality(financial_statement) = Cardinality(UpsertKeys)

(* ------------------------ claims on the loop of execute ---------------- *)
\* C19: a Source Adapter failure for one work item skips that item only: no
\* upsert is made for it, the Source Adapter is called at most once per work
\* item in a run (no retry), and the run goes on to the remaining items and
\* ends normally.
C19_FetchFailureSkipsItem ==
    /\ trace.calls = Cardinality(trace.visits)
    /\ \A e \in trace.upserts : e.security_code \notin trace.fetchFailed
    /\ (pc \in {"upsert", "update"}) => stock.stock_symbol \notin trace.fetchFailed
    /\ (Ended /\ trace.fetchFailed # {}) =>
          /\ result = "ok"
          /\ trace.visits = Eligible
          /\ trace.sets = 1

\* a run has ended in which the Source Adapter failed for one item, was
\* called twice in all, and the other item was upserted
C19_Witness ==
    /\ Ended
    /\ Cardinality(trace.fetchFailed) = 1
    /\ Cardinality(trace.upserts) = 1
    /\ trace.calls = 2
    /\ trace.failed = {"fetch"}

(* ------------------------ progress at the Fetch Gate ------------------- *)
\* C20: a caller suspended in SEMAPHORE.acquire() eventually holds a permit
\* and sends, provided every holder's outbound call eventually completes; and
\* no caller is suspended while a permit is free.
C20_SuspendedEventuallySends ==
    /\ [](Suspended # {} => SEMAPHORE.permits = 0)
    /\ \A c \in Callers : (cpc[c] = "waiting") ~> (cpc[c] = "sending" /\ c \in woken)

\* a caller that was suspended holds a permit handed over by a release and
\* is sending
C20_Witness ==
    \E c \in Callers : c \in woken /\ cpc[c] = "sending" /\ SEMAPHORE.permits = 0

(* ------------------------ claims on the scheduler ---------------------- *)
\* a step a run of job j can take next
JobStep(j) ==
    \/ \E built \in BOOLEAN : InTask(j) /\ get_client(j, built)
    \/ \E cpus \in 1..MaxCpus : acquire(j, cpus)
    \/ \E ok \in BOOLEAN : send(j, ok)
    \/ read_body(j)
    \/ \E r \in {"ok", "err"} : task_end(j, r)

\* the run of a job changes only by being fired or by the return of its own
\* current task, and it ends only with the return of its last task
NoCancelStep ==
    /\ Cardinality({j \in Triggers : job'[j] # job[j]}) <= 1
    /\ \A j \in Triggers :
          job'[j] # job[j] =>
              \/ job[j].task = 0 /\ job'[j].task = 1
              \/ /\ job[j].task > 0
                 /\ cpc[j] = "idle" /\ cres[j] # "none"
                 /\ IF job[j].task = JobTasks(j)
                    THEN job'[j] = NoRun
                    ELSE job'[j].task = job[j].task + 1

\* C16 as stated: a run of one trigger that fails or has not finished never
\* cancels and never delays a task of another trigger.
C16_Original ==
    /\ [][NoCancelStep]_vars
    /\ [](\A j \in Triggers : cpc[j] # "waiting")

\* C16: a run of one trigger that fails or has not finished never cancels a
\* run of another trigger, and delays it only at the Fetch Gate: a task's
\* outbound request is suspended while all permits are held by the requests
\* of other runs; a run that is not suspended there can always take its next
\* step.
C16_IndependentTriggers ==
    /\ [][NoCancelStep]_vars
    /\ [](\A j \in Triggers :
            /\ cpc[j] = "waiting" =>
                  Cardinality(Holders \ {j}) = SEMAPHORE.capacity
            /\ (job[j].task > 0 /\ cpc[j] # "waiting") => ENABLED JobStep(j))

\* the first task of trigger 1 has returned an error and its second task is
\* running, while the request of another trigger's task is suspended
C16_Witness ==
    /\ job[1].results = <<"err">>
    /\ job[1].task = 2
    /\ Suspended # {}
    /\ 1 \notin Suspended

\* C17 as stated: after the registration of a trigger with an invalid cron
\* expression has failed, start-up does not go on: start() does not reach
\* its normal return.
C17_InvalidCronIsFatal == cron_result = "cron_err" => start_pc # "done"

(* ------------------------ two runs in sequence ------------------------- *)
\* a row without the time of its last write
NoUpdatedTime(r) == [r EXCEPT !.updated_time = 0]

\* a row without its two times
NoTimes(r) == [r EXCEPT !.created_time = 0, !.updated_time = 0]

\* the second of the two runs is over
SecondRunEnded == first.done /\ Ended

\* the second run stored nothing the first run had not stored
NothingNewStored == {e.security_code : e \in trace.upserts} \subseteq first.upserted

\* C11 as stated: after the second of two runs in sequence (sentinel cleared in
\* between, same Source Adapter responses) the persisted state is the state
\* the first run left
C11_Original ==
    SecondRunEnded =>
        /\ financial_statement = first.financial_statement
        /\ stock_nav = first.stock_nav

\* C11: after the second of two runs in sequence (sentinel cleared in between,
\* same Source Adapter responses), if the second run stored no record the
\* first run had not stored, the persisted state is the state the first run
\* left except for the updated_time of the records written again
C11_RerunKeepsState ==
    (SecondRunEnded /\ NothingNewStored) =>
        /\ {NoUpdatedTime(r) : r \in financial_statement}
               = {NoUpdatedTime(r) : r \in first.financial_statement}
        /\ Cardinality(financial_statement) = Cardinality(first.financial_statement)
        /\ stock_nav = first.stock_nav

\* the second run is over and wrote again a record the first run had stored
C11_Witness ==
    /\ SecondRunEnded
    /\ NothingNewStored
    /\ trace.upserts # {}
    /\ financial_statement # first.financial_statement

(* ------------------------ two overlapping executions ------------------- *)
\* both executions are over and both started while the sentinel was absent
BothEnded ==
    /\ Ended
    /\ other.trace.invoked /\ other.pc = "idle"
    /\ ~trace.invokedWithSentinel
    /\ ~other.trace.invokedWithSentinel

\* the record one execution stores for stock s when it reads the clock at t
SingleRow(s, t) == EntityFrom(s, source[s], t)

\* one execution can store a record for stock s
Storable(s) ==
    /\ ~is_preference_shares(s)
    /\ source[s].ok
    /\ ~WindowMismatch(now.year, now.quarter, source[s])

\* C18 as stated: when two overlapping executions are over, every stored row
\* is a row a single execution stores, no key is stored twice, and the stocks
\* table holds what a single execution leaves
C18_Original ==
    BothEnded =>
        /\ UniqueKeys(financial_statement)
        /\ \A r \in financial_statement :
               /\ Storable(r.security_code)
               /\ \E t \in Times : r = SingleRow(r.security_code, t)
        /\ \A s \in Stocks :
               stock_nav[s] # 0 =>
                   \E r \in financial_statement :
                       /\ r.security_code = s
                       /\ r.net_asset_value_per_share = stock_nav[s]

\* C18: when two overlapping executions are over, no key is stored twice, every
\* stored row is, up to created_time and updated_time, a row a single
\* execution stores, and the stocks table holds what a single execution leaves
C18_OverlapIsSafe ==
    BothEnded =>
        /\ UniqueKeys(financial_statement)
        /\ \A r \in financial_statement :
               /\ Storable(r.security_code)
               /\ \E t \in Times : NoTimes(r) = NoTimes(SingleRow(r.security_code, t))
        /\ \A s \in Stocks :
               stock_nav[s] # 0 =>
                   \E r \in financial_statement :
                       /\ r.security_code = s
                       /\ r.net_asset_value_per_share = stock_nav[s]

\* both executions are over and both stored the same record, the one that read
\* the clock first storing last
C18_Witness ==
    /\ BothEnded
    /\ \E r \in financial_statement : r.updated_time < r.created_time
    /\ trace.upserts # {} /\ other.trace.upserts # {}

(* ------------------------ Fetch Gate: position of the permit ----------- *)
\* callers outside the acquire..return section of request_send: not yet at
\* acquire, returned with a client error, or reading the response body
OutsideGate == {c \in Callers : cpc[c] \in {"idle", "built", "returned"}}

\* C29: the permit is asked for only once the client exists and the request
\* is built, and is given back when request_send returns: the semaphore is
\* first used after the client is ready, the permits taken are exactly those
\* of the callers inside send, and a step of a caller that fails to get the
\* client or that reads the body leaves the semaphore and the queue alone.
C29_PermitOnlyAroundSend ==
    /\ [](SEMAPHORE.init => CLIENT = "ready")
    /\ [](\A c \in Callers : cpc[c] \in {"waiting", "sending"} => CLIENT = "ready")
    /\ [](SEMAPHORE.init =>
             SEMAPHORE.capacity - SEMAPHORE.permits
                 = Cardinality(Callers \ (OutsideGate \cup Suspended)))
    /\ [](\A c \in Callers : cres[c] = "client_err" => c \in OutsideGate)
    /\ [][\A c \in Callers :
             (\/ cpc[c] = "idle" /\ cres[c] # "client_err" /\ cres'[c] = "client_err"
              \/ cpc[c] = "returned" /\ cpc'[c] = "idle")
                 => UNCHANGED <<SEMAPHORE, waiters>>]_vars

\* a caller reads the body of its response while every permit is free, and
\* another caller has returned a client error
C29_Witness ==
    /\ SEMAPHORE.init
    /\ SEMAPHORE.permits = SEMAPHORE.capacity
    /\ \E c \in Callers : cpc[c] = "returned" /\ cres[c] = "ok"
    /\ \E c \in Callers : cres[c] = "client_err"

(* ------------------------ tasks of one job ----------------------------- *)
\* C30: the tasks of one job run one after another in their listed order: the
\* k-th task runs when exactly the k-1 tasks before it have returned, a task
\* starts only at the return of the one before it, and whether that one
\* returned Ok or Err the next task of the job runs.
C30_TasksInSequence ==
    /\ [](\A j \in Triggers :
            /\ job[j].task \in 0..JobTasks(j)
            /\ Len(job[j].results) = IF job[j].task = 0 THEN 0 ELSE job[j].task - 1)
    /\ [][\A j \in Triggers :
            (job[j].task > 0 /\ job[j].task < JobTasks(j) /\ job'[j] # job[j]) =>
                /\ cpc[j] = "idle" /\ cres[j] # "none"
                /\ job'[j].task = job[j].task + 1
                /\ \E r \in {"ok", "err"} :
                       job'[j].results = Append(job[j].results, r)]_vars

\* the first task of job 1 returned an error and its second task is sending
\* its request
C30_Witness ==
    /\ job[1].task = 2
    /\ job[1].results = <<"err">>
    /\ cpc[1] = "sending"

(* ------------------------ the success counter -------------------------- *)
\* C25: in every run the success counter is 0 at every step, however many
\* items were upserted, and update_last_eps is never called.
C25_CounterStaysZero ==
    /\ success_update_count = 0
    /\ trace.rollups = 0

\* a run has ended after upserting two items and updating a stock, without a
\* call of update_last_eps
C25_Witness ==
    /\ Ended
    /\ Cardinality(trace.upserts) = 2
    /\ trace.updates >= 1
    /\ trace.rollups = 0
    /\ trace.sets = 1

(* ------------------------ sentinel eligibility ------------------------- *)
\* C26: an invocation that finds the sentinel entry absent or expired goes on
\* to query the Persistence Port for the work set; the entry changes only by
\* the write at the end of a run and by the expiry of its TTL, and it
\* disappears only by the expiry, which is no step of the task.
C26_EligibleWhenAbsent ==
    /\ []((trace.invoked /\ ~trace.invokedWithSentinel)
             => (pc = "fetch_stocks" \/ trace.reads = 1))
    /\ [][sentinel' # sentinel =>
             \/ /\ sentinel.value
                /\ sentinel' = NoEntry
                /\ trace'.expired
                /\ UNCHANGED <<financial_statement, stock_nav, pc, year, quarter,
                               stocks, stock, fs, success_update_count, result>>
             \/ /\ sentinel' = [value |-> TRUE, ttl |-> SentinelTTL]
                /\ pc = "loop" /\ stocks = {}
                /\ pc' = "idle"]_vars

\* a run stored rows and set the sentinel, the entry expired, and the next
\* invocation has read the work set
C26_Witness ==
    /\ trace.invoked
    /\ ~trace.invokedWithSentinel
    /\ trace.reads = 1
    /\ trace.readOk
    /\ trace.upserts = {}
    /\ financial_statement # {}
    /\ ~sentinel.value
    /\ pc = "loop"

(* ------------------------ abandoned runs ------------------------------- *)
\* C22: a run under way has written no sentinel, and a run abandoned by a
\* shutdown has written none either, so that the entry is absent unless it
\* was there before the run; the invocation that follows the restart then
\* starts the task from its beginning, with the query of the work set; and
\* the sentinel write is the last effect of a run: it comes with the return.
C22_AbandonedRunRetried ==
    /\ [](pc # "idle" => trace.sets = 0)
    /\ [](trace.abandoned =>
             /\ pc = "idle"
             /\ trace.sets = 0
             /\ ~trace.invokedWithSentinel => ~sentinel.value)
    /\ []((trace.restarted /\ ~trace.abandoned /\ ~trace.invokedWithSentinel)
             => (pc = "fetch_stocks" /\ trace.reads = 0) \/ trace.reads = 1)
    /\ [][trace'.sets > trace.sets =>
             /\ pc' = "idle"
             /\ result' = "ok"
             /\ UNCHANGED <<financial_statement, stock_nav>>]_vars

\* a run that had stored a row was abandoned, and the invocation after the
\* restart has queried the work set again
C22_Witness ==
    /\ trace.restarted
    /\ ~trace.invokedWithSentinel
    /\ ~sentinel.value
    /\ trace.reads = 1
    /\ trace.readOk
    /\ trace.upserts = {}
    /\ financial_statement # {}

(* ------------------------ the frame of upsert -------------------------- *)
\* the rows of a table with the natural key of e
AtKey(table, e) == {r \in table : SameKey(r, e)}

\* C28: an upsert that meets a row with its natural key sets the row's data
\* fields and updated_time to the record's and leaves its key, created_time
\* and serial as they were; one that meets none inserts the record; rows with
\* another key, and their serials, are unchanged.
C28_UpsertFrame ==
    (last.op = "upsert" /\ last.ok) =>
           LET e == last.rec
           IN  /\ \A r \in last.before :
                      ~SameKey(r, e) =>
                          r \in financial_statement /\ serial[Key(r)] = last.serials[Key(r)]
               /\ \A r \in financial_statement : ~SameKey(r, e) => r \in last.before
               /\ IF AtKey(last.before, e) # {}
                  THEN /\ \A r \in AtKey(last.before, e) :
                              AtKey(financial_statement, e) =
                                  {[security_code |-> r.security_code, year |-> r.year,
                                    quarter |-> r.quarter,
                                    earnings_per_share |-> e.earnings_per_share,
                                    net_asset_value_per_share |->
                                        e.net_asset_value_per_share,
                                    created_time |-> r.created_time,
                                    updated_time |-> e.updated_time]}
                       /\ serial[Key(e)] = last.serials[Key(e)]
                  ELSE AtKey(financial_statement, e) = {e}

\* an upsert has met a row with other data and another created_time, beside a
\* row with another key
C28_Witness ==
    /\ last.op = "upsert"
    /\ last.ok
    /\ Cardinality(financial_statement) = 2
    /\ \E r \in last.before :
           /\ SameKey(r, last.rec)
           /\ r.earnings_per_share # last.rec.earnings_per_share
           /\ r.net_asset_value_per_share # last.rec.net_asset_value_per_share
           /\ r.created_time # last.rec.created_time
           /\ r.updated_time # last.rec.updated_time
           /\ serial[Key(r)] = 1

(* ------------------------ notification failures ------------------------ *)
\* C24: a failed send of the notification collaborator is only logged: once
\* the start-up message has been sent or has failed, start() has returned
\* normally, leaving the scheduler as run_cron left it, and once report_error
\* has sent or failed to send its message, visit has returned Ok with no
\* dates; neither outcome depends on whether the send succeeded.
C24_SendFailureOnlyLogged ==
    /\ [](telegram.start # "none" <=> start_pc = "done")
    /\ [](telegram.report # "none" =>
             holiday.pc = "returned" /\ holiday.result = "ok_empty")
    /\ [][start_pc # start_pc' /\ start_pc' \notin {"jobs", "sched_start", "notify"} =>
             /\ start_pc = "notify"
             /\ start_pc' = "done"
             /\ UNCHANGED <<sched, cron_result, job, holiday>>]_vars
    /\ [][telegram'.report # telegram.report =>
             \/ holiday'.pc = "request"
             \/ /\ holiday.pc = "report"
                /\ holiday' = [pc |-> "returned", result |-> "ok_empty"]
                /\ UNCHANGED <<start_pc, sched, cron_result, job, gateVars>>]_vars

\* start() has returned after a failed start-up message, and visit has
\* returned after a failed report
C24_Witness ==
    /\ start_pc = "done"
    /\ telegram.start = "err"
    /\ telegram.report = "err"
    /\ holiday.pc = "returned"
    /\ holiday.result = "ok_empty"

(* ------------------------ the items of one run ------------------------- *)
\* the stocks of the work set that one run writes: not a preference share,
\* fetched, of the requested window, and stored by the Persistence Port
Written ==
    {s \in trace.workset :
        /\ ~is_preference_shares(s)
        /\ source[s].ok
        /\ ~WindowMismatch(now.year, now.quarter, source[s])
        /\ port[s].upsert}

\* the natural keys of the requested window of a set of stocks
WindowKeys(S) == {<<s, now.year, now.quarter>> : s \in S}

\* C21: the natural keys a run upserts are, at its end, exactly those of the
\* work items that are no preference shares, whose fetch succeeded, whose
\* window is the requested one and whose write succeeded (and never any other
\* key on the way); the table holds those rows, and the sentinel is set.
C21_UpsertedExactlyValid ==
    /\ {Key(e) : e \in trace.upserts} \subseteq WindowKeys(Written)
    /\ (Ended /\ trace.readOk) =>
          /\ {Key(e) : e \in trace.upserts} = WindowKeys(Written)
          /\ {Key(r) : r \in financial_statement} = WindowKeys(Written)
          /\ result = "ok"
          /\ trace.sets = 1
          /\ sentinel = [value |-> TRUE, ttl |-> SentinelTTL]

\* the work set was the three stocks: the preference share was skipped, stock 1
\* was upserted, stock 2 came back with another window and was skipped, and
\* the sentinel is set
C21_Witness ==
    /\ Ended
    /\ trace.workset = Stocks
    /\ source[1].ok /\ ~WindowMismatch(now.year, now.quarter, source[1])
    /\ source[2].ok /\ WindowMismatch(now.year, now.quarter, source[2])
    /\ {Key(e) : e \in trace.upserts} = {<<1, now.year, now.quarter>>}
    /\ "mismatch" \in trace.failed
    /\ sentinel.value

(* ------------------------ failure of the secondary update -------------- *)
\* the stocks whose row is written and whose secondary update fails
UpdateFailed ==
    {s \in Written : source[s].net_asset_value_per_share # 0 /\ ~port[s].update}

\* C23: the step of a failing secondary update changes neither the table nor
\* the stocks and goes on with the loop; at the end of the run the row of
\* such an item is stored as it was upserted, every eligible item was
\* visited and the sentinel is set.
C23_UpdateFailureOnlyLogged ==
    /\ [][(pc = "update" /\ ~port[stock.stock_symbol].update /\ pc' # "update") =>
             /\ pc' = "loop"
             /\ UNCHANGED <<financial_statement, serial, stock_nav, stocks, sentinel>>]_vars
    /\ []((Ended /\ trace.readOk) =>
             \A s \in UpdateFailed :
                 /\ \E e \in trace.upserts :
                        e.security_code = s /\ e \in financial_statement
                 /\ stock_nav[s] = 0
                 /\ trace.visits = Eligible
                 /\ result = "ok"
                 /\ trace.sets = 1
                 /\ sentinel = [value |-> TRUE, ttl |-> SentinelTTL])

\* a run has ended in which the secondary update of one stock failed and that
\* of the other succeeded; both rows are stored
C23_Witness ==
    /\ Ended
    /\ trace.readOk
    /\ UpdateFailed # {}
    /\ trace.updates = 2
    /\ Cardinality(financial_statement) = 2
    /\ \E s \in Stocks : stock_nav[s] # 0
    /\ sentinel.value

(* ------------------------ the order of the items ----------------------- *)
\* the second of two runs over the same work set, from the same stores, is over
ReplayEnded == first.done /\ Ended

\* C27 as stated: two runs over the same work set with the same Source
\* Adapter and Persistence Port outcomes per item, whatever the order in which
\* each processes the items, leave the same persisted state and sentinel.
C27_Original ==
    ReplayEnded =>
        /\ financial_statement = first.financial_statement
        /\ serial = first.serial
        /\ stock_nav = first.stock_nav
        /\ sentinel = first.sentinel

\* C27: two runs over the same work set with the same Source Adapter and
\* Persistence Port outcomes per item, whatever the order in which each
\* processes the items, leave the same rows up to created_time and
\* updated_time, serials for the same keys, the same stocks table and the
\* same sentinel.
C27_ItemsIndependent ==
    ReplayEnded =>
        /\ {NoTimes(r) : r \in financial_statement}
               = {NoTimes(r) : r \in first.financial_statement}
        /\ Cardinality(financial_statement) = Cardinality(first.financial_statement)
        /\ {k \in Keys : serial[k] # 0} = {k \in Keys : first.serial[k] # 0}
        /\ stock_nav = first.stock_nav
        /\ sentinel = first.sentinel

\* the second run stored the same two rows as the first in the other order
C27_Witness ==
    /\ ReplayEnded
    /\ Cardinality(financial_statement) = 2
    /\ serial # first.serial

(* ------------------------ start-up of the scheduler -------------------- *)
\* run_cron returned the error of a Job::new_async or of a sched.add
RegistrationFailed == cron_result \in {"cron_err", "add_err"}

\* C31: the scheduler is started only when every trigger has been added; a
\* run of a job exists only under a started scheduler; and once the creation
\* or the addition of a trigger has failed, run_cron has returned, the
\* scheduler is not started, the failed trigger and those after it are not
\* added, and no job runs, those added before the failure included.
C31_StartAllOrNothing ==
    /\ sched.started => (sched.jobs = Triggers /\ cron_result = "ok")
    /\ \A j \in Triggers : job[j] # NoRun => (sched.started /\ j \in sched.jobs)
    /\ RegistrationFailed =>
          /\ start_pc \in {"notify", "done"}
          /\ ~sched.started
          /\ sched.jobs # Triggers
          /\ \A j \in Triggers : job[j] = NoRun

\* the addition of a trigger failed after others had been added, and start()
\* has returned
C31_Witness ==
    /\ RegistrationFailed
    /\ sched.jobs # {}
    /\ start_pc = "done"

(* ------------------------ preference shares ---------------------------- *)
\* the preference shares among the items the loop has taken so far
TakenPreference ==
    {s \in PreferenceShares : s \in trace.workset /\ \A i \in stocks : i.stock_symbol # s}

\* C32: the step that takes a preference share from the work set goes straight
\* back to the loop and makes no call and no write, and acquires no permit;
\* no run ever asks the Source Adapter about a preference share, upserts a
\* row for one, or is in its fetch, upsert or secondary update for one, and
\* no preference share's row or net asset value is ever written.
C32_PreferenceShareSkipped ==
    /\ [][(pc = "loop" /\ \E i \in stocks \ stocks' : is_preference_shares(i.stock_symbol)) =>
             /\ pc' = "loop"
             /\ UNCHANGED <<trace, SEMAPHORE, cpc, financial_statement, serial,
                            stock_nav, sentinel>>]_vars
    /\ [](/\ trace.visits \cap PreferenceShares = {}
          /\ \A e \in trace.upserts \cup financial_statement :
                 ~is_preference_shares(e.security_code)
          /\ \A s \in PreferenceShares : stock_nav[s] = 0
          /\ pc \in {"visit", "upsert", "update"} =>
                 ~is_preference_shares(stock.stock_symbol))

\* a run over the preference share and an ordinary stock has ended: the
\* ordinary stock was fetched and upserted, the preference share was taken
\* from the work set and nothing was done for it
C32_Witness ==
    /\ Ended
    /\ trace.readOk
    /\ TakenPreference # {}
    /\ trace.calls = 1
    /\ Cardinality(trace.upserts) = 1

(* ------------------------ when the secondary update is issued ---------- *)
\* C33: the run is at the secondary update only for an item whose upsert
\* succeeded (its row is stored), whose stored net asset value is zero and
\* whose fetched net asset value is not; a stock's net asset value is changed
\* only by that update, only from zero, and only to the fetched value.
C33_UpdateOnlyFromZero ==
    /\ [](pc = "update" =>
             /\ fs \in trace.upserts
             /\ \E r \in financial_statement :
                    SameKey(r, fs) /\ r.net_asset_value_per_share = fs.net_asset_value_per_share
             /\ stock_nav[stock.stock_symbol] = 0
             /\ trace.resp.ok
             /\ trace.resp.net_asset_value_per_share # 0
             /\ fs.net_asset_value_per_share = trace.resp.net_asset_value_per_share)
    /\ [](trace.updates <= Cardinality(trace.upserts))
    /\ [][\A s \in Stocks :
             stock_nav'[s] # stock_nav[s] =>
                 /\ pc = "update"
                 /\ s = stock.stock_symbol
                 /\ stock_nav[s] = 0
                 /\ stock_nav'[s] = fs.net_asset_value_per_share]_vars

\* a run has upserted the rows of two stocks, both with a fetched net asset
\* value that is not zero, and issued one secondary update only: the other
\* stock's stored net asset value was not zero when the run read it
C33_Witness ==
    /\ Ended
    /\ trace.readOk
    /\ Cardinality({e.security_code : e \in trace.upserts}) = 2
    /\ \A e \in trace.upserts : e.net_asset_value_per_share # 0
    /\ trace.updates = 1

(* ------------------------ the holiday schedule's response -------------- *)
\* the stat of a response is present and equal to "OK" ignoring case
StatIsOk(stat) ==
    /\ stat.some
    /\ Len(stat.val) = 2
    /\ stat.val[1] \in {"O", "o"}
    /\ stat.val[2] \in {"K", "k"}

\* the rows of data that give a date: at least 3 columns, no start-of-trading
\* marker in the third, and a first column that parses as a date
DateRows(data) ==
    {i \in 1..Len(data) :
        /\ Len(data[i]) >= 3
        /\ \A k \in 1..Len(data[i][3]) : data[i][3][k] # StartOfTrading
        /\ parse_from_str(data[i][1]).ok}

\* the k-th of a set of row numbers
Nth(S, k) == CHOOSE i \in S : Cardinality({j \in S : j <= i}) = k

\* C34: once visit has returned on a response that parsed: if stat is missing
\* or is not "OK" ignoring case, it has sent one error notification and
\* returned Ok with no dates; if stat is "OK" ignoring case, it has sent none
\* and returned the dates of the first columns of exactly the rows that have
\* at least 3 columns, no start-of-trading marker in the third and a first
\* column that parses as a date, in the order of the rows.
C34_StatValidatedIgnoringCase ==
    (holiday.pc = "returned" /\ holiday.result # "err") =>
        LET res == schedule.res
            rows == DateRows(res.data)
        IN  /\ res.parsed
            /\ IF StatIsOk(res.stat)
               THEN /\ holiday.result = "ok_dates"
                    /\ schedule.reports = 0
                    /\ telegram.report = "none"
                    /\ Len(schedule.dates) = Cardinality(rows)
                    /\ \A k \in 1..Len(schedule.dates) :
                           schedule.dates[k] = parse_from_str(res.data[Nth(rows, k)][1]).date
               ELSE /\ holiday.result = "ok_empty"
                    /\ schedule.reports = 1
                    /\ telegram.report # "none"
                    /\ schedule.dates = <<>>

\* visit has returned one date on a response whose stat is "ok" in lower case
\* and whose two rows both have a first column with the shape of a date: the
\* other row has the marker, too few columns or a day that does not exist
C34_Witness ==
    /\ holiday.pc = "returned"
    /\ schedule.res.stat = [some |-> TRUE, val |-> <<"o", "k">>]
    /\ Len(schedule.res.data) = 2
    /\ \A i \in 1..2 : Len(schedule.res.data[i][1]) = 5
    /\ Len(schedule.dates) = 1
    /\ schedule.reports = 0
====
